---- MODULE Spec2Model ----
(***************************************************************************)
(* Model of MovieRecommender (src/recommending.py): the catalog, the raw   *)
(* ratings store and the preference store, the ingestion of new ratings,   *)
(* and the two queries find_similar_user_by_id and                         *)
(* make_recommendations_for_id.                                            *)
(*                                                                         *)
(* Numbers.  Ratings are natural numbers.  An average                      *)
(* total / count is kept in fixed point: it is stored multiplied by Scale, *)
(* the least common multiple of every count a genre can reach in the       *)
(* catalog, so every stored average is an exact integer and two averages   *)
(* compare as the quotients do.  A cosine similarity s is kept as the      *)
(* fraction <<n, d>> whose value is s * |s| (d > 0), which orders          *)
(* similarities as the reals do; -1.0 is <<-1, 1>> and 0.0 is <<0, 1>>.    *)
(*                                                                         *)
(* Strings are compared as Python compares them; StrOrder lists the        *)
(* strings of the model in that order.                                     *)
(*                                                                         *)
(* Iteration orders.  A Python dict iterates in insertion order, which the *)
(* input files decide.  Each query therefore chooses the order in which it *)
(* walks a dict: any order of the preference store and of the recipient's  *)
(* profile, ascending or descending keys of the recommender's ratings.     *)
(*                                                                         *)
(* Calls.  The caller is single-threaded: call holds the call just made    *)
(* and what it gave, and Return hands control back before the next call.   *)
(***************************************************************************)
EXTENDS Integers, Sequences, FiniteSets, TLC

VARIABLES movie_info, all_user_ratings, all_user_preferences, call

vars == <<movie_info, all_user_ratings, all_user_preferences, call>>

\* ------------------------------------------------------------- bounds
\* User IDs are 1..MaxUser.
MaxUser == 3
\* A file of new ratings names at most MaxFileUsers users.
MaxFileUsers == 1
\* The ratings of WideDicts are 0..MaxRating.
MaxRating == 2

\* ------------------------------------------------- program constants
\* recommending.py:189, len(top_genres_list) < 2
TopGenreCount == 2
\* recommending.py:211, index < 5
MaxRecommendations == 5

\* ------------------------------------------------------------ helpers
Range(s) == {s[i] : i \in DOMAIN s}

RECURSIVE GCD(_, _)
GCD(a, b) == IF b = 0 THEN a ELSE GCD(b, a % b)

RECURSIVE LCMUpTo(_)
LCMUpTo(n) == IF n <= 1 THEN 1 ELSE LET l == LCMUpTo(n - 1) IN (l * n) \div GCD(l, n)

\* The keys of a set of integers in ascending order.
RECURSIVE Ascending(_)
Ascending(S) ==
    IF S = {} THEN <<>>
    ELSE LET m == CHOOSE x \in S : \A y \in S : x <= y
         IN <<m>> \o Ascending(S \ {m})

Reverse(s) == [i \in 1..Len(s) |-> s[Len(s) + 1 - i]]

\* Every order in which the elements of S can be listed.
Orders(S) ==
    {s \in [1..Cardinality(S) -> S] : \A i, j \in 1..Cardinality(S) : s[i] = s[j] => i = j}

\* Python's order on the strings of the model (code point order).
StrOrder ==
    <<"A", "Action", "B", "C", "Comedy", "D", "Drama", "E", "F", "G">>

StrRank(s) == CHOOSE i \in DOMAIN StrOrder : StrOrder[i] = s

\* ------------------------------------------------------------- inputs
\* The catalog file: movie ID -> (title, genres).  Movie 9 is rated by some
\* users and is not in the catalog.  Movies 3 and 8 share a title.
Catalog ==
    (1 :> [title |-> "G", genres |-> <<"Action", "Comedy">>]) @@
    (2 :> [title |-> "D", genres |-> <<"Action">>]) @@
    (3 :> [title |-> "B", genres |-> <<"Action">>]) @@
    (4 :> [title |-> "C", genres |-> <<"Drama", "Action">>]) @@
    (5 :> [title |-> "F", genres |-> <<"Comedy">>]) @@
    (6 :> [title |-> "E", genres |-> <<"Comedy">>]) @@
    (7 :> [title |-> "A", genres |-> <<"Comedy">>]) @@
    (8 :> [title |-> "B", genres |-> <<"Drama">>])

\* One user's ratings, movie ID -> rating, as the files hold them: a user of
\* two genres, one whose ratings are all zero, one of three genres, one of a
\* single genre, one who rated nothing the catalog holds, and one who rated
\* every movie.
RatingDicts ==
    { (1 :> 2),
      (1 :> 0),
      (4 :> 2) @@ (5 :> 1),
      (8 :> 1),
      (9 :> 1),
      (1 :> 2) @@ (2 :> 1) @@ (3 :> 2) @@ (4 :> 1) @@ (5 :> 2) @@ (6 :> 1)
          @@ (7 :> 2) @@ (8 :> 2) @@ (9 :> 2) }

\* Every ratings mapping over the movies WideMovies with ratings 0..MaxRating.
WideMovies == {1, 4, 8, 9}

WideDicts == UNION {[M -> 0..MaxRating] : M \in SUBSET WideMovies}

UserIds == 1..MaxUser

\* A ratings file: user ID -> that user's ratings.
RatingFiles(maxUsers) ==
    UNION {[U -> RatingDicts] : U \in {V \in SUBSET UserIds : Cardinality(V) <= maxUsers}}

\* The greatest number of catalog movies tagged with one genre, and the
\* fixed-point scale of an average.
MaxGenreCount ==
    LET genres == UNION {Range(Catalog[m].genres) : m \in DOMAIN Catalog}
        n(g) == Cardinality({m \in DOMAIN Catalog : g \in Range(Catalog[m].genres)})
    IN CHOOSE c \in {n(g) : g \in genres} : \A g \in genres : n(g) <= c

Scale == LCMUpTo(MaxGenreCount)

\* ------------------------------------------------ ratings_to_preferences
\* A plausible slip: the rating is added to totals but the movie is not counted
\* again for a genre already met.
AddGenre_CountOnce(genre, score, acc) ==
    LET total == IF genre \in DOMAIN acc.totals THEN acc.totals[genre] ELSE 0
    IN [totals |-> (genre :> total + score) @@ acc.totals,
        counts |-> (genre :> 1) @@ acc.counts]

\* One pass of the inner loop body: totals[genre] and counts[genre] updated.
AddGenre(genre, score, acc) ==
    LET total == IF genre \in DOMAIN acc.totals THEN acc.totals[genre] ELSE 0
        count == IF genre \in DOMAIN acc.counts THEN acc.counts[genre] ELSE 0
    IN [totals |-> (genre :> total + score) @@ acc.totals,
        counts |-> (genre :> count + 1) @@ acc.counts]

\* The inner loop: for genre in genres, from position i on.  (A loop's next
\* accumulator is bound as a \in {...} so that it is computed once.)
RECURSIVE AddGenres(_, _, _, _)
AddGenres(genres, i, score, acc) ==
    IF i > Len(genres) THEN acc
    ELSE CHOOSE r \in {AddGenres(genres, i + 1, score, a) :
                           a \in {AddGenre(genres[i], score, acc)}} : TRUE

\* The outer loop: for movie_id, score in user_ratings.items(), walking the
\* keys in the order ids, from position i on.
RECURSIVE Accumulate(_, _, _, _)
Accumulate(user_ratings, ids, i, acc) ==
    IF i > Len(ids) THEN acc
    ELSE LET movie_id == ids[i]
             score == user_ratings[movie_id]
         IN CHOOSE r \in {Accumulate(user_ratings, ids, i + 1, a) :
                a \in {IF movie_id \in DOMAIN movie_info
                       THEN AddGenres(movie_info[movie_id].genres, 1, score, acc)
                       ELSE acc}} : TRUE

\* total / counts[genre], in fixed point.
Average(total, count) == (total * Scale) \div count

ratings_to_preferences(user_ratings) ==
    LET acc == Accumulate(user_ratings, Ascending(DOMAIN user_ratings), 1,
                          [totals |-> <<>>, counts |-> <<>>])
    IN [genre \in DOMAIN acc.totals |-> Average(acc.totals[genre], acc.counts[genre])]

\* ------------------------------------------------------------- calls
\* The last call and what it gave: its arguments, whether it raised KeyError,
\* its return value and the locals the claims speak of.
NoCall ==
    [op |-> "none", user_id |-> 0, recipient_id |-> 0, new_ratings |-> <<>>,
     raised |-> FALSE, ret |-> 0, top_genres_list |-> <<>>, candidates |-> <<>>]

\* ------------------------------------------------------ cosine_similarity
\* sum(f[x] for x in S)
RECURSIVE Sum(_, _)
Sum(f, S) ==
    IF S = {} THEN 0
    ELSE LET x == CHOOSE y \in S : TRUE IN f[x] + Sum(f, S \ {x})

Zero == <<0, 1>>

cosine_similarity(first, second) ==
    LET shared == DOMAIN first \cap DOMAIN second
        dot_product == Sum([g \in shared |-> first[g] * second[g]], shared)
        \* mag_first and mag_second, squared
        sq_first == Sum([g \in DOMAIN first |-> first[g] * first[g]], DOMAIN first)
        sq_second == Sum([g \in DOMAIN second |-> second[g] * second[g]], DOMAIN second)
    IN IF shared = {} THEN Zero
       ELSE IF sq_first = 0 \/ sq_second = 0 THEN Zero
       ELSE <<(IF dot_product < 0 THEN -1 ELSE 1) * dot_product * dot_product,
              sq_first * sq_second>>

\* The order of n1/d1 and n2/d2 (n >= 0, d > 0): -1, 0 or 1, by continued
\* fractions, which multiplies nothing.
RECURSIVE CmpFrac(_, _, _, _)
CmpFrac(n1, d1, n2, d2) ==
    LET q1 == n1 \div d1
        q2 == n2 \div d2
        r1 == n1 % d1
        r2 == n2 % d2
    IN IF q1 # q2 THEN (IF q1 < q2 THEN -1 ELSE 1)
       ELSE IF r1 = 0 /\ r2 = 0 THEN 0
       ELSE IF r1 = 0 THEN -1
       ELSE IF r2 = 0 THEN 1
       ELSE CHOOSE c \in {CmpFrac(a[1], a[2], a[3], a[4]) : a \in {<<d2, r2, d1, r1>>}} : TRUE

\* The order of two similarities: -1, 0 or 1.
CmpSim(a, b) ==
    IF a[1] < 0 /\ b[1] < 0 THEN CmpFrac(-b[1], b[2], -a[1], a[2])
    ELSE IF a[1] < 0 THEN -1
    ELSE IF b[1] < 0 THEN 1
    ELSE CmpFrac(a[1], a[2], b[1], b[2])

\* ------------------------------------------------ find_similar_user_by_id
\* A plausible slip: no tie-break on the user ID.
IsBetter_NoTieBreak(similarity, other_id, best) ==
    CmpSim(similarity, best.best_similarity) = 1

\* The test of the loop body: a higher similarity, or a higher ID on an exact tie.
IsBetter(similarity, other_id, best) ==
    LET better_similarity == CmpSim(similarity, best.best_similarity) = 1
        same_similarity ==
            CmpSim(similarity, best.best_similarity) = 0 /\ other_id > best.best_match_id
    IN better_similarity \/ same_similarity

\* A plausible slip: the target is not skipped.
Examine_NoSelfSkip(user_id, target_prefs, other_id, best) ==
    LET similarity == cosine_similarity(target_prefs, all_user_preferences[other_id])
    IN IF IsBetter(similarity, other_id, best)
       THEN [best_similarity |-> similarity, best_match_id |-> other_id]
       ELSE best

\* The loop body for one (other_id, other_prefs) of the store.
Examine(user_id, target_prefs, other_id, best) ==
    IF other_id # user_id
    THEN LET similarity == cosine_similarity(target_prefs, all_user_preferences[other_id])
         IN IF IsBetter(similarity, other_id, best)
            THEN [best_similarity |-> similarity, best_match_id |-> other_id]
            ELSE best
    ELSE best

\* for other_id, other_prefs in self.all_user_preferences.items(), in the
\* order given, from position i on.
RECURSIVE Scan(_, _, _, _, _)
Scan(user_id, target_prefs, order, i, best) ==
    IF i > Len(order) THEN best
    ELSE CHOOSE r \in {Scan(user_id, target_prefs, order, i + 1, b) :
                          b \in {Examine(user_id, target_prefs, order[i], best)}} : TRUE

InitialBest == [best_similarity |-> <<-1, 1>>, best_match_id |-> -1]

\* A plausible slip: dict.get, so that an unknown target gives "no match".
FindSimilar_Default(user_id, order) ==
    [NoCall EXCEPT !.op = "find_similar_user_by_id", !.user_id = user_id,
        !.ret = IF user_id \notin DOMAIN all_user_preferences THEN -1
                ELSE Scan(user_id, all_user_preferences[user_id], order, 1,
                          InitialBest).best_match_id]

\* The body of find_similar_user_by_id, the store iterating in the given order.
FindSimilar(user_id, order) ==
    IF user_id \notin DOMAIN all_user_preferences
    THEN [NoCall EXCEPT !.op = "find_similar_user_by_id", !.user_id = user_id,
                        !.raised = TRUE]
    ELSE [NoCall EXCEPT !.op = "find_similar_user_by_id", !.user_id = user_id,
              !.ret = Scan(user_id, all_user_preferences[user_id], order, 1,
                           InitialBest).best_match_id]

find_similar_user_by_id(user_id) ==
    /\ call.op = "none"
    /\ \E order \in Orders(DOMAIN all_user_preferences) :
          call' = FindSimilar(user_id, order)
    /\ UNCHANGED <<movie_info, all_user_ratings, all_user_preferences>>

\* -------------------------------------------- make_recommendations_for_id
\* list.sort(key): the stable sort of seq, less[i, j] being
\* key(seq[i]) < key(seq[j]).
StableSort(seq, less) ==
    LET n == Len(seq)
        Before(j, i) ==
            \/ less[j, i]
            \/ ~less[i, j] /\ j < i
        pos(i) == 1 + Cardinality({j \in 1..n : j # i /\ Before(j, i)})
    IN [k \in 1..n |-> seq[CHOOSE i \in 1..n : pos(i) = k]]

\* A plausible slip: key=lambda pair: -pair[1], no tie-break on the name.
GenreKeyLess_RatingOnly(a, b) == a[2] > b[2]

\* key=lambda pair: (-pair[1], pair[0]) on (genre, average) pairs
GenreKeyLess(a, b) ==
    \/ a[2] > b[2]
    \/ a[2] = b[2] /\ StrRank(a[1]) < StrRank(b[1])

\* A plausible slip: key=lambda t: -t[1], no tie-break on the title.
CandidateKeyLess_RatingOnly(a, b) == a[2] > b[2]

\* key=lambda t: (-t[1], t[0]) on (title, rating) pairs
CandidateKeyLess(a, b) ==
    \/ a[2] > b[2]
    \/ a[2] = b[2] /\ StrRank(a[1]) < StrRank(b[1])

Min(a, b) == IF a <= b THEN a ELSE b

\* The first loop: the genres of the first two sorted pairs.
TopGenres(pairs) ==
    [index \in 1..Min(Len(pairs), TopGenreCount) |-> pairs[index][1]]

\* A plausible slip: not_seen is not tested.
Candidates_SeenAllowed(recommender_ratings, recipient_seen, top_genres_list, ids) ==
    LET Keep(movie_id) ==
            /\ movie_id \in DOMAIN movie_info
            /\ Range(top_genres_list) \cap Range(movie_info[movie_id].genres) # {}
        kept == SelectSeq(ids, Keep)
    IN [i \in 1..Len(kept) |->
           <<movie_info[kept[i]].title, recommender_ratings[kept[i]]>>]

\* The candidate loop, over the recommender's movie IDs in the order ids.
Candidates(recommender_ratings, recipient_seen, top_genres_list, ids) ==
    LET Keep(movie_id) ==
            LET not_seen == movie_id \notin DOMAIN recipient_seen
                in_metadata == movie_id \in DOMAIN movie_info
            IN /\ not_seen /\ in_metadata
               /\ Range(top_genres_list) \cap Range(movie_info[movie_id].genres) # {}
        kept == SelectSeq(ids, Keep)
    IN [i \in 1..Len(kept) |->
           <<movie_info[kept[i]].title, recommender_ratings[kept[i]]>>]

\* The last loop: the titles of the first five sorted candidates.
TakeTitles(candidates) ==
    {candidates[index][1] : index \in 1..Min(Len(candidates), MaxRecommendations)}

\* A plausible slip: only the missing entry returns early, not the empty one.
NoProfile_MissingOnly(recipient_id) ==
    recipient_id \notin DOMAIN all_user_preferences

\* The two early returns: no entry in the preference store, or an empty one.
NoProfile(recipient_id) ==
    \/ recipient_id \notin DOMAIN all_user_preferences
    \/ Cardinality(DOMAIN all_user_preferences[recipient_id]) = 0

\* The body of make_recommendations_for_id.  genre_order: the order in which
\* the recipient's profile iterates; reversed: whether the recommender's
\* ratings iterate in descending rather than ascending key order.
MakeRecommendations(recommender_id, recipient_id, genre_order, reversed) ==
    LET this == [NoCall EXCEPT !.op = "make_recommendations_for_id",
                               !.user_id = recommender_id,
                               !.recipient_id = recipient_id, !.ret = {}]
    IN
    IF NoProfile(recipient_id) THEN this
    ELSE
      LET recipient_prefs == all_user_preferences[recipient_id]
          items == [i \in 1..Len(genre_order) |->
                       <<genre_order[i], recipient_prefs[genre_order[i]]>>]
          pairs == StableSort(items,
              [i, j \in DOMAIN items |-> GenreKeyLess(items[i], items[j])])
          top_genres_list == TopGenres(pairs)
      IN IF \/ recommender_id \notin DOMAIN all_user_ratings
            \/ recipient_id \notin DOMAIN all_user_ratings
         THEN [this EXCEPT !.raised = TRUE, !.ret = 0,
                           !.top_genres_list = top_genres_list]
         ELSE
           LET recommender_ratings == all_user_ratings[recommender_id]
               recipient_seen == all_user_ratings[recipient_id]
               keys == Ascending(DOMAIN recommender_ratings)
               found == Candidates(recommender_ratings, recipient_seen, top_genres_list,
                                   IF reversed THEN Reverse(keys) ELSE keys)
               candidates == StableSort(found,
                   [i, j \in DOMAIN found |-> CandidateKeyLess(found[i], found[j])])
           IN [this EXCEPT !.top_genres_list = top_genres_list,
                           !.candidates = candidates,
                           !.ret = TakeTitles(candidates)]

\* The profile of a user the preference store may not hold.
ProfileKeys(user_id) ==
    IF user_id \in DOMAIN all_user_preferences
    THEN DOMAIN all_user_preferences[user_id] ELSE {}

\* ---------------------------------------- __init__ and add_new_ratings
\* __init__: both files are read, then every user's profile is built.
Init ==
    /\ movie_info = Catalog
    /\ \E file \in RatingFiles(MaxUser) :
          /\ all_user_ratings = file
          /\ all_user_preferences =
                [user_id \in DOMAIN file |-> ratings_to_preferences(file[user_id])]
    /\ call = NoCall

\* A plausible slip: a user in both mappings gets the two values merged key by
\* key instead of the new value.
Update_MergeWithin(dict, other) ==
    [k \in DOMAIN dict \cup DOMAIN other |->
        IF k \in DOMAIN other /\ k \in DOMAIN dict THEN other[k] @@ dict[k]
        ELSE IF k \in DOMAIN other THEN other[k] ELSE dict[k]]

\* dict.update(other)
Update(dict, other) ==
    [k \in DOMAIN dict \cup DOMAIN other |-> IF k \in DOMAIN other THEN other[k] ELSE dict[k]]

\* A plausible slip: the raw ratings are merged and the profiles are not.
add_new_ratings_RatingsOnly(new_ratings) ==
    /\ call.op = "none"
    /\ all_user_ratings' = Update(all_user_ratings, new_ratings)
    /\ call' = [NoCall EXCEPT !.op = "add_new_ratings", !.new_ratings = new_ratings]
    /\ UNCHANGED <<movie_info, all_user_preferences>>

add_new_ratings(new_ratings) ==
    /\ call.op = "none"
    /\ LET new_preferences ==
               [user_id \in DOMAIN new_ratings |->
                    ratings_to_preferences(new_ratings[user_id])]
       IN /\ all_user_ratings' = Update(all_user_ratings, new_ratings)
          /\ all_user_preferences' = Update(all_user_preferences, new_preferences)
    /\ call' = [NoCall EXCEPT !.op = "add_new_ratings", !.new_ratings = new_ratings]
    /\ UNCHANGED movie_info

\* The call has returned (or raised) and the caller goes on to its next call.
Return ==
    /\ call.op # "none"
    /\ call' = NoCall
    /\ UNCHANGED <<movie_info, all_user_ratings, all_user_preferences>>

make_recommendations_for_id(recommender_id, recipient_id) ==
    /\ call.op = "none"
    /\ \E genre_order \in Orders(ProfileKeys(recipient_id)), reversed \in BOOLEAN :
          call' = MakeRecommendations(recommender_id, recipient_id, genre_order, reversed)
    /\ UNCHANGED <<movie_info, all_user_ratings, all_user_preferences>>

Next ==
    \/ \E new_ratings \in RatingFiles(MaxFileUsers) : add_new_ratings(new_ratings)
    \/ \E user_id \in UserIds : find_similar_user_by_id(user_id)
    \/ \E recommender_id, recipient_id \in UserIds :
          make_recommendations_for_id(recommender_id, recipient_id)
    \/ Return

Spec == Init /\ [][Next]_vars

\* A second specification, for the claims about what one call computes from
\* one or two users' ratings: user 1 starts with any ratings mapping of
\* WideDicts, and a file of new ratings gives user 2 a mapping of RatingDicts.
InitWide ==
    /\ movie_info = Catalog
    /\ \E file \in [{1} -> WideDicts] :
          /\ all_user_ratings = file
          /\ all_user_preferences =
                [user_id \in DOMAIN file |-> ratings_to_preferences(file[user_id])]
    /\ call = NoCall

NextWide ==
    \/ \E new_ratings \in [{2} -> RatingDicts] : add_new_ratings(new_ratings)
    \/ \E user_id \in 1..3 : find_similar_user_by_id(user_id)
    \/ \E recommender_id, recipient_id \in 1..3 :
          make_recommendations_for_id(recommender_id, recipient_id)
    \/ Return

SpecWide == InitWide /\ [][NextWide]_vars

\* ================================================================ claims
\* What the claims speak of, stated from the stores and the catalog alone.

\* The movies of a ratings mapping that the catalog holds, and their genres.
InCatalog(ratings) == {m \in DOMAIN ratings : m \in DOMAIN movie_info}

GenresOf(m) == Range(movie_info[m].genres)

\* The catalog movies of a ratings mapping that are tagged with genre g.
Tagged(ratings, g) == {m \in InCatalog(ratings) : g \in GenresOf(m)}

RECURSIVE RatingSum(_, _)
RatingSum(ratings, M) ==
    IF M = {} THEN 0
    ELSE LET m == CHOOSE x \in M : TRUE IN ratings[m] + RatingSum(ratings, M \ {m})

\* The raw ratings and the profile of a user, empty for a user not stored.
RatingsOf(user_id) ==
    IF user_id \in DOMAIN all_user_ratings THEN all_user_ratings[user_id] ELSE <<>>

ProfileOf(user_id) ==
    IF user_id \in DOMAIN all_user_preferences
    THEN all_user_preferences[user_id] ELSE <<>>

\* Genre g comes before genre h in the order (average descending, name ascending).
GenreBefore(profile, g, h) ==
    \/ profile[g] > profile[h]
    \/ profile[g] = profile[h] /\ StrRank(g) < StrRank(h)

\* The top genres of a user: the first min(2, k) genres in that order.
TopGenresOf(user_id) ==
    LET profile == ProfileOf(user_id)
        K == DOMAIN profile
    IN {g \in K : Cardinality({h \in K : GenreBefore(profile, h, g)}) < TopGenreCount}

\* The movies that qualify: rated by the recommender, not rated by the
\* recipient, in the catalog, and tagged with a top genre of the recipient.
Eligible(recommender_id, recipient_id) ==
    {m \in InCatalog(RatingsOf(recommender_id)) :
        /\ m \notin DOMAIN RatingsOf(recipient_id)
        /\ GenresOf(m) \cap TopGenresOf(recipient_id) # {}}

\* Movie x comes strictly before movie y in the order (rating descending,
\* title ascending) of the recommender's candidates.
MovieBefore(ratings, x, y) ==
    \/ ratings[x] > ratings[y]
    \/ ratings[x] = ratings[y]
         /\ StrRank(movie_info[x].title) < StrRank(movie_info[y].title)

\* Every choice of the first min(5, n) of the n qualifying movies in that order
\* (two movies of one title and one rating can stand in either order).
FirstFive(recommender_id, recipient_id) ==
    LET E == Eligible(recommender_id, recipient_id)
        ratings == RatingsOf(recommender_id)
    IN {X \in SUBSET E :
          /\ Cardinality(X) = Min(MaxRecommendations, Cardinality(E))
          /\ \A x \in X, y \in E \ X : ~MovieBefore(ratings, y, x)}

Titles(M) == {movie_info[m].title : m \in M}

Returned(op) == call.op = op /\ ~call.raised

\* C1: whenever make_recommendations_for_id returns a set, it is the set of
\* titles of the first min(5, n) candidates in the order (rating descending,
\* title ascending), the candidates being the recommender's rated movies that
\* the recipient has not rated, that are in the catalog and that carry a top
\* genre of the recipient; so it holds at most 5 titles, and no candidate left
\* out is rated strictly higher than a candidate taken.
C1_TopFiveByRatingThenTitle ==
    Returned("make_recommendations_for_id") =>
        LET taken == FirstFive(call.user_id, call.recipient_id)
            E == Eligible(call.user_id, call.recipient_id)
            ratings == RatingsOf(call.user_id)
        IN /\ taken # {}
           /\ \A X \in taken :
                 /\ call.ret = Titles(X)
                 /\ \A x \in X, y \in E \ X : ratings[y] <= ratings[x]
           /\ Cardinality(call.ret) <= MaxRecommendations

\* C1's case: more than five candidates, the cut falling between two
\* candidates of one rating, so that the title decides.
C1_Witness ==
    /\ Returned("make_recommendations_for_id")
    /\ Cardinality(Eligible(call.user_id, call.recipient_id)) > MaxRecommendations
    /\ Cardinality(call.ret) = MaxRecommendations
    /\ \E X \in FirstFive(call.user_id, call.recipient_id) :
          \E x \in X, y \in Eligible(call.user_id, call.recipient_id) \ X :
             RatingsOf(call.user_id)[x] = RatingsOf(call.user_id)[y]

\* C2: a movie the recipient has rated never becomes a candidate: the
\* candidates are as many as the qualifying movies and each is the (title,
\* rating) of one of them, and every returned title is the title of a catalog
\* movie that the recommender rated, the recipient did not, and that carries a
\* top genre of the recipient.
C2_SeenMoviesExcluded ==
    Returned("make_recommendations_for_id") =>
        LET E == Eligible(call.user_id, call.recipient_id)
            ratings == RatingsOf(call.user_id)
        IN /\ Len(call.candidates) = Cardinality(E)
           /\ \A i \in DOMAIN call.candidates :
                 \E m \in E : call.candidates[i] = <<movie_info[m].title, ratings[m]>>
           /\ \A t \in call.ret :
                 \E m \in DOMAIN movie_info :
                    /\ movie_info[m].title = t
                    /\ m \in DOMAIN ratings
                    /\ m \notin DOMAIN RatingsOf(call.recipient_id)
                    /\ GenresOf(m) \cap TopGenresOf(call.recipient_id) # {}

\* C2's case: after new ratings were added, both users rated a catalog movie
\* of a top genre of the recipient, the recommender rating it at least as high
\* as every movie recommended, and its title is not recommended.
C2_Witness ==
    /\ Returned("make_recommendations_for_id")
    /\ call.ret # {}
    /\ call.recipient_id = 2
    /\ \E m \in InCatalog(RatingsOf(call.user_id)) :
          /\ m \in DOMAIN RatingsOf(call.recipient_id)
          /\ GenresOf(m) \cap TopGenresOf(call.recipient_id) # {}
          /\ \A i \in DOMAIN call.candidates :
                call.candidates[i][2] <= RatingsOf(call.user_id)[m]
          /\ movie_info[m].title \notin call.ret

\* The users other than the target of the last find_similar_user_by_id, and
\* the similarity of one of them to the target.
Others == DOMAIN all_user_preferences \ {call.user_id}

SimilarityTo(other_id) ==
    cosine_similarity(all_user_preferences[call.user_id], all_user_preferences[other_id])

\* C3: with a stored target and at least one other user,
\* find_similar_user_by_id returns a user other than the target of maximal
\* cosine similarity to the target and, among those of that similarity, the one
\* of the greatest ID, whatever the order in which the store iterates.
C3_MostSimilarThenGreatestId ==
    (Returned("find_similar_user_by_id") /\ Others # {}) =>
        /\ call.ret \in Others
        /\ \A other_id \in Others :
              \/ CmpSim(SimilarityTo(other_id), SimilarityTo(call.ret)) = -1
              \/ /\ CmpSim(SimilarityTo(other_id), SimilarityTo(call.ret)) = 0
                 /\ other_id <= call.ret

\* C3's case: two users tie at the maximal similarity, which is positive and
\* less than 1, and the one of the greater ID is returned.
C3_Witness ==
    /\ Returned("find_similar_user_by_id")
    /\ \E a, b \in Others :
          /\ a < b
          /\ call.ret = b
          /\ CmpSim(SimilarityTo(a), SimilarityTo(b)) = 0
          /\ CmpSim(SimilarityTo(a), Zero) = 1
          /\ CmpSim(SimilarityTo(a), <<1, 1>>) = -1

\* C4: find_similar_user_by_id returns -1 when the store holds only the
\* target; when it holds another user, every candidate beats the initial best
\* (similarity -1.0, ID -1), so the result is a stored user other than the
\* target and never -1, also when every candidate has similarity 0.0.
C4_SentinelOnlyWhenAlone ==
    Returned("find_similar_user_by_id") =>
        /\ Others = {} => call.ret = -1
        /\ Others # {} =>
              /\ call.ret \in Others
              /\ call.ret # -1
              /\ \A other_id \in Others :
                    CmpSim(SimilarityTo(other_id), InitialBest.best_similarity) = 1

\* C4's case: two candidates, each sharing no genre with the target.
C4_Witness ==
    /\ Returned("find_similar_user_by_id")
    /\ Cardinality(Others) >= 2
    /\ DOMAIN all_user_preferences[call.user_id] # {}
    /\ \A other_id \in Others :
          /\ DOMAIN all_user_preferences[other_id] # {}
          /\ DOMAIN all_user_preferences[other_id]
                \cap DOMAIN all_user_preferences[call.user_id] = {}
    /\ call.ret \in Others

\* C5 as stated: a query naming a user absent from the store it is read from
\* always ends in the key-not-found error: find_similar_user_by_id with a
\* target absent from the preference store, make_recommendations_for_id with a
\* recommender absent from the raw ratings, whatever the recipient.
C5_AbsentUserAlwaysRaises ==
    /\ (call.op = "find_similar_user_by_id"
            /\ call.user_id \notin DOMAIN all_user_preferences) => call.raised
    /\ (call.op = "make_recommendations_for_id"
            /\ call.user_id \notin DOMAIN all_user_ratings) => call.raised

\* C5 amended: find_similar_user_by_id with a target absent from the
\* preference store always ends in the key-not-found error, and so does
\* make_recommendations_for_id with a recommender absent from the raw ratings
\* when the recipient has a non-empty profile in the preference store; when
\* the recipient has no profile or an empty one, the call returns the empty set
\* before the recommender is looked up.
C5_AbsentUserRaisesPastEarlyReturn ==
    /\ (call.op = "find_similar_user_by_id"
            /\ call.user_id \notin DOMAIN all_user_preferences) => call.raised
    /\ (call.op = "make_recommendations_for_id"
            /\ call.user_id \notin DOMAIN all_user_ratings) =>
          IF DOMAIN ProfileOf(call.recipient_id) # {}
          THEN call.raised
          ELSE ~call.raised /\ call.ret = {}

\* C5's case: a recommender absent from the raw ratings, a recipient with a
\* profile, and the error.
C5_Witness ==
    /\ call.op = "make_recommendations_for_id"
    /\ call.user_id \notin DOMAIN all_user_ratings
    /\ DOMAIN ProfileOf(call.recipient_id) # {}
    /\ call.raised

\* C6: make_recommendations_for_id returns the empty set and raises nothing
\* whenever the recipient has no entry in the preference store or an empty
\* profile (no rated movie of the recipient is in the catalog), for every
\* recommender.
C6_NoProfileGivesEmptySet ==
    (/\ call.op = "make_recommendations_for_id"
     /\ \/ call.recipient_id \notin DOMAIN all_user_preferences
        \/ all_user_preferences[call.recipient_id] = <<>>
        \/ InCatalog(RatingsOf(call.recipient_id)) = {})
        => ~call.raised /\ call.ret = {}

\* C6's case: the recipient is stored with an empty profile and the
\* recommender is absent from the raw ratings.
C6_Witness ==
    /\ call.op = "make_recommendations_for_id"
    /\ call.recipient_id \in DOMAIN all_user_preferences
    /\ all_user_preferences[call.recipient_id] = <<>>
    /\ call.user_id \notin DOMAIN all_user_ratings
    /\ call.ret = {}

\* C7: after construction and after any sequence of add_new_ratings calls,
\* the two stores hold the same user IDs and every stored profile is the one
\* ratings_to_preferences computes from the user's stored raw ratings.
C7_StoresInSync ==
    /\ DOMAIN all_user_ratings = DOMAIN all_user_preferences
    /\ \A user_id \in DOMAIN all_user_ratings :
          all_user_preferences[user_id] = ratings_to_preferences(all_user_ratings[user_id])

\* C7's case: new ratings were just added for a user with a non-empty profile
\* and another user is stored.
C7_Witness ==
    /\ call.op = "add_new_ratings"
    /\ \E user_id \in DOMAIN call.new_ratings :
          /\ all_user_preferences[user_id] # <<>>
          /\ DOMAIN all_user_ratings \ DOMAIN call.new_ratings # {}

\* C8: add_new_ratings removes no user from either store; a user named in the
\* new data has exactly the new mapping as raw ratings; a user not named keeps
\* the same raw ratings and profile; the catalog is unchanged.
C8_AddNewRatingsFrame ==
    [][call'.op = "add_new_ratings" =>
         /\ DOMAIN all_user_ratings \subseteq DOMAIN all_user_ratings'
         /\ DOMAIN all_user_preferences \subseteq DOMAIN all_user_preferences'
         /\ \A user_id \in DOMAIN call'.new_ratings :
               /\ user_id \in DOMAIN all_user_ratings'
               /\ all_user_ratings'[user_id] = call'.new_ratings[user_id]
         /\ \A user_id \in DOMAIN all_user_ratings \ DOMAIN call'.new_ratings :
               all_user_ratings'[user_id] = all_user_ratings[user_id]
         /\ \A user_id \in DOMAIN all_user_preferences \ DOMAIN call'.new_ratings :
               all_user_preferences'[user_id] = all_user_preferences[user_id]
         /\ movie_info' = movie_info]_vars

\* C8's case: new ratings were just added for one user, whose new mapping
\* rates fewer movies than the store holds for another user.
C8_Witness ==
    /\ call.op = "add_new_ratings"
    /\ \E user_id \in DOMAIN call.new_ratings :
          \E other_id \in DOMAIN all_user_ratings \ DOMAIN call.new_ratings :
             Cardinality(DOMAIN all_user_ratings[user_id])
                < Cardinality(DOMAIN all_user_ratings[other_id])

\* C9: the profile built from a user's raw ratings has exactly the genres of
\* the user's rated movies that are in the catalog as keys, and for each genre
\* the sum of the user's ratings of the catalog movies tagged with it divided
\* by their number, a movie counting once in each of its genres.  (The stored
\* average is the quotient times Scale.)
C9_ProfileIsGenreAverages ==
    \A user_id \in DOMAIN all_user_preferences :
        LET ratings == all_user_ratings[user_id]
            profile == all_user_preferences[user_id]
        IN /\ DOMAIN profile = UNION {GenresOf(m) : m \in InCatalog(ratings)}
           /\ \A g \in DOMAIN profile :
                 profile[g] * Cardinality(Tagged(ratings, g))
                    = Scale * RatingSum(ratings, Tagged(ratings, g))

\* C9's case: a user rated a movie outside the catalog and two catalog movies
\* of one genre, one of them of two genres, and the average is not whole.
C9_Witness ==
    \E user_id \in DOMAIN all_user_preferences :
        LET ratings == all_user_ratings[user_id]
            profile == all_user_preferences[user_id]
        IN /\ DOMAIN ratings \ DOMAIN movie_info # {}
           /\ \E g \in DOMAIN profile :
                 /\ Cardinality(Tagged(ratings, g)) = 2
                 /\ profile[g] % Scale # 0
                 /\ \E m \in Tagged(ratings, g) : Cardinality(GenresOf(m)) = 2

\* C10: the recipient's top genres are the first min(2, k) genre names of the
\* k profile entries in the order (average descending, name ascending),
\* whatever the order in which the profile iterates.
C10_TopGenresByAverageThenName ==
    (call.op = "make_recommendations_for_id" /\ DOMAIN ProfileOf(call.recipient_id) # {}) =>
        LET profile == ProfileOf(call.recipient_id)
            K == DOMAIN profile
            top == call.top_genres_list
        IN /\ Len(top) = Min(TopGenreCount, Cardinality(K))
           /\ \A i \in DOMAIN top :
                 /\ top[i] \in K
                 /\ Cardinality({h \in K : GenreBefore(profile, h, top[i])}) = i - 1
           /\ \A g \in Range(top), h \in K \ Range(top) :
                 /\ profile[h] <= profile[g]
                 /\ profile[h] = profile[g] => StrRank(g) < StrRank(h)

\* C10's case: a profile of three genres, the genre left out having the
\* average of a genre taken.
C10_Witness ==
    /\ call.op = "make_recommendations_for_id"
    /\ Cardinality(DOMAIN ProfileOf(call.recipient_id)) = 3
    /\ Len(call.top_genres_list) = TopGenreCount
    /\ \E h \in DOMAIN ProfileOf(call.recipient_id) \ Range(call.top_genres_list) :
          ProfileOf(call.recipient_id)[h]
             = ProfileOf(call.recipient_id)[call.top_genres_list[2]]

====
